---- MODULE Spec2Model ----
(***************************************************************************)
(* A model of src/sheet.py: class Sheet, an in-memory grid of cells that   *)
(* hold scalars or formula text, with set/get/edit/delete operations and   *)
(* read-time formula evaluation.                                           *)
(*                                                                         *)
(* Python values are tagged records:                                       *)
(*   None   [t |-> "None"]                                                 *)
(*   int    [t |-> "int", i |-> n]                                         *)
(*   float  [t |-> "float", n |-> numerator, d |-> denominator]  (d > 0,   *)
(*          in lowest terms; the exact rational the float stands for)      *)
(*   str    [t |-> "str", s |-> <<characters>>]                            *)
(* A Python str is the sequence of its characters, each a one-character    *)
(* TLA+ string; a Python list is a TLA+ sequence, so the Python index k    *)
(* is the TLA+ index k + 1.                                                *)
(***************************************************************************)
EXTENDS Integers, Sequences, FiniteSets, TLC

VARIABLES
    data_array,   \* Sheet._data_array: list of rows, each a list of values
    last,         \* the call made last: operation, arguments and outcome
    set_cells,    \* history kept under SpecHistory: the coordinates on which
                  \* a set_value has succeeded
    sheets        \* under SpecInstances: the class attribute
                  \* Sheet._data_array and, for each instance, whether it
                  \* has an attribute _data_array of its own, and that list

vars == <<data_array, last, set_cells, sheets>>

----------------------------------------------------------------------------
(* Python values *)

None == [t |-> "None"]
PyInt(n) == [t |-> "int", i |-> n]
PyStr(chars) == [t |-> "str", s |-> chars]

\* Sheet.__init__: self.default_value = default_value, with the default None
default_value == None

----------------------------------------------------------------------------
(* str helpers used by __resolve_index *)

ascii_uppercase ==
    <<"A","B","C","D","E","F","G","H","I","J","K","L","M",
      "N","O","P","Q","R","S","T","U","V","W","X","Y","Z">>
ascii_lowercase ==
    <<"a","b","c","d","e","f","g","h","i","j","k","l","m",
      "n","o","p","q","r","s","t","u","v","w","x","y","z">>
digits == <<"0","1","2","3","4","5","6","7","8","9">>

IndexIn(seq, ch) == CHOOSE k \in 1..Len(seq) : seq[k] = ch
IsIn(seq, ch) == \E k \in 1..Len(seq) : seq[k] = ch

\* the address as it was passed, not upper-cased
upper_not_applied(str) == str

\* str.upper()
upper(str) ==
    [k \in 1..Len(str) |->
        IF IsIn(ascii_lowercase, str[k])
        THEN ascii_uppercase[IndexIn(ascii_lowercase, str[k])]
        ELSE str[k]]

\* str.rstrip('0123456789'): drop the maximal trailing run of digits
RECURSIVE rstrip_digits(_)
rstrip_digits(str) ==
    IF str # <<>> /\ IsIn(digits, str[Len(str)])
    THEN rstrip_digits(SubSeq(str, 1, Len(str) - 1))
    ELSE str

\* int(tail) for a string of decimal digits (the empty string is no int)
RECURSIVE int_of(_)
int_of(str) ==
    IF str = <<>> THEN 0
    ELSE 10 * int_of(SubSeq(str, 1, Len(str) - 1))
         + (IndexIn(digits, str[Len(str)]) - 1)

\* Sheet.__init__: {chr(code): i for i, code in enumerate(range(ord('A'), ord('Z') + 1))}
alphabet_mapping ==
    [ch \in {ascii_uppercase[k] : k \in 1..26} |-> IndexIn(ascii_uppercase, ch) - 1]

\* Sheet.__resolve_index: exc names the exception raised, "none" on return
resolve_index(str_index) ==
    LET Split(up) ==
          LET Resolve(head) ==
                IF ~(Len(head) = 1 /\ head[1] \in DOMAIN alphabet_mapping)
                THEN [exc |-> "CustomSheetIndexError", row |-> 0, col |-> 0]
                ELSE IF Len(head) = Len(up)
                THEN [exc |-> "ValueError", row |-> 0, col |-> 0]
                ELSE [exc |-> "none",
                      row |-> int_of(SubSeq(up, Len(head) + 1, Len(up))) - 1,
                      col |-> alphabet_mapping[head[1]]]
          IN  Resolve(rstrip_digits(up))
    IN  Split(upper(str_index))

----------------------------------------------------------------------------
(* list indexing *)

\* Python list index k on a list of length n is in range for -n <= k < n
InRange(list, k) == k >= -Len(list) /\ k < Len(list)
\* the TLA+ position of Python index k (negative k counts from the end)
Pos(list, k) == IF k < 0 THEN Len(list) + k + 1 ELSE k + 1

\* whether self._data_array[row][col] raises IndexError
HasCell(data, row, col) ==
    /\ InRange(data, row)
    /\ InRange(data[Pos(data, row)], col)
Cell(data, row, col) == data[Pos(data, row)][Pos(data[Pos(data, row)], col)]
\* self._data_array[row][col] = value
StoreCell(data, row, col, value) ==
    [data EXCEPT ![Pos(data, row)][Pos(data[Pos(data, row)], col)] = value]

Max(a, b) == IF a > b THEN a ELSE b
Min(a, b) == IF a < b THEN a ELSE b

\* Sheet.resize: the height first, then the width of every row
resize(data, rows, cols) ==
    LET current_height == Len(data)
        current_width  == IF data # <<>> THEN Len(data[1]) ELSE 0
        Widen(height_done) ==
            [r \in 1..Len(height_done) |->
                IF cols > current_width
                THEN height_done[r]
                     \o [c \in 1..(cols - current_width) |-> default_value]
                ELSE height_done[r]]
    IN  Widen(SubSeq(data, 1, Min(Max(rows, 0), current_height))
              \o [k \in 1..Max(rows - current_height, 0) |->
                     [c \in 1..Max(cols, 0) |-> default_value]])

----------------------------------------------------------------------------
(* value manipulation; each returns the exception raised ("none" when the
   call returns) and the grid it leaves behind *)

\* the write of set_value after the grid was resized for it
StoreGrown(grown, row, col, value) ==
    IF HasCell(grown, row, col)
    THEN [exc |-> "none", data |-> StoreCell(grown, row, col, value)]
    ELSE [exc |-> "IndexError", data |-> grown]

\* set_value without the check for a value already set
set_value_overwrites(data, str_index, value) ==
    LET Resolved(at) ==
          IF at.exc # "none" THEN [exc |-> at.exc, data |-> data]
          ELSE IF ~HasCell(data, at.row, at.col)
          THEN StoreGrown(resize(data, at.row + 1, at.col + 1),
                          at.row, at.col, value)
          ELSE [exc |-> "none", data |-> StoreCell(data, at.row, at.col, value)]
    IN  Resolved(resolve_index(str_index))

\* Sheet.set_value
set_value(data, str_index, value) ==
    LET Resolved(at) ==
          IF at.exc # "none" THEN [exc |-> at.exc, data |-> data]
          ELSE IF ~HasCell(data, at.row, at.col)
          THEN StoreGrown(resize(data, at.row + 1, at.col + 1),
                          at.row, at.col, value)
          ELSE IF Cell(data, at.row, at.col) # default_value
          THEN [exc |-> "CustomValueAlreadySetError", data |-> data]
          ELSE [exc |-> "none", data |-> StoreCell(data, at.row, at.col, value)]
    IN  Resolved(resolve_index(str_index))

\* edit_value that returns without writing
edit_value_ignored(data, str_index, value) ==
    LET Resolved(at) ==
          IF at.exc # "none" THEN [exc |-> at.exc, data |-> data]
          ELSE IF ~HasCell(data, at.row, at.col)
          THEN [exc |-> "CustomEmptyCellError", data |-> data]
          ELSE [exc |-> "none", data |-> data]
    IN  Resolved(resolve_index(str_index))

\* Sheet.edit_value
edit_value(data, str_index, value) ==
    LET Resolved(at) ==
          IF at.exc # "none" THEN [exc |-> at.exc, data |-> data]
          ELSE IF ~HasCell(data, at.row, at.col)
          THEN [exc |-> "CustomEmptyCellError", data |-> data]
          ELSE [exc |-> "none", data |-> StoreCell(data, at.row, at.col, value)]
    IN  Resolved(resolve_index(str_index))

\* Sheet.delete_value
delete_value(data, str_index) ==
    LET Resolved(at) ==
          IF at.exc # "none" THEN [exc |-> at.exc, data |-> data]
          ELSE IF ~HasCell(data, at.row, at.col)
          THEN [exc |-> "CustomEmptyCellError", data |-> data]
          ELSE [exc |-> "none",
                data |-> StoreCell(data, at.row, at.col, default_value)]
    IN  Resolved(resolve_index(str_index))

----------------------------------------------------------------------------
(* numbers: the operators of Sheet._operators on Python values *)

PyFloat(n, d) == [t |-> "float", n |-> n, d |-> d]
Abs(a) == IF a < 0 THEN -a ELSE a

RECURSIVE Gcd(_, _)
Gcd(a, b) == IF b = 0 THEN a ELSE Gcd(b, a % b)

\* the float n/d, for d # 0
Frac(n, d) ==
    LET Reduced(g, s) == PyFloat((s * n) \div g, (s * d) \div g)
    IN  Reduced(Gcd(Abs(n), Abs(d)), IF d < 0 THEN -1 ELSE 1)

IsNumber(v) == v.t \in {"int", "float"}
Num(v) == IF v.t = "int" THEN v.i ELSE v.n
Den(v) == IF v.t = "int" THEN 1 ELSE v.d
\* the result of int/float arithmetic: an int only when both operands are
Number(a, b, n, d) ==
    IF a.t = "int" /\ b.t = "int" THEN PyInt(n \div d) ELSE Frac(n, d)

\* floor(n / d) for d > 0
Floor(n, d) == n \div d

Returns(v) == [exc |-> "none", val |-> v]
Raises(e) == [exc |-> e, val |-> None]

\* sequence * n
RECURSIVE Repeat(_, _)
Repeat(chars, n) == IF n <= 0 THEN <<>> ELSE chars \o Repeat(chars, n - 1)

RECURSIVE IntPow(_, _)
IntPow(b, e) == IF e = 0 THEN 1 ELSE b * IntPow(b, e - 1)

\* operator.add
op_add(a, b) ==
    IF IsNumber(a) /\ IsNumber(b)
    THEN Returns(Number(a, b, Num(a) * Den(b) + Num(b) * Den(a), Den(a) * Den(b)))
    ELSE IF a.t = "str" /\ b.t = "str" THEN Returns(PyStr(a.s \o b.s))
    ELSE Raises("TypeError")

\* operator.sub
op_sub(a, b) ==
    IF IsNumber(a) /\ IsNumber(b)
    THEN Returns(Number(a, b, Num(a) * Den(b) - Num(b) * Den(a), Den(a) * Den(b)))
    ELSE Raises("TypeError")

\* operator.mul
op_mul(a, b) ==
    IF IsNumber(a) /\ IsNumber(b)
    THEN Returns(Number(a, b, Num(a) * Num(b), Den(a) * Den(b)))
    ELSE IF a.t = "str" /\ b.t = "int" THEN Returns(PyStr(Repeat(a.s, b.i)))
    ELSE IF a.t = "int" /\ b.t = "str" THEN Returns(PyStr(Repeat(b.s, a.i)))
    ELSE Raises("TypeError")

\* operator.truediv
op_truediv(a, b) ==
    IF IsNumber(a) /\ IsNumber(b)
    THEN IF Num(b) = 0 THEN Raises("ZeroDivisionError")
         ELSE Returns(Frac(Num(a) * Den(b), Den(a) * Num(b)))
    ELSE Raises("TypeError")

\* operator.mod: a - floor(a / b) * b on numbers; on a str it is printf
\* formatting, which raises TypeError for a str without a '%' conversion
op_mod(a, b) ==
    IF IsNumber(a) /\ IsNumber(b)
    THEN IF Num(b) = 0 THEN Raises("ZeroDivisionError")
         ELSE LET Rest(q) ==
                    Returns(Number(a, b,
                        Num(a) * Den(b) - q * Num(b) * Den(a), Den(a) * Den(b)))
              IN  Rest(IF Den(a) * Num(b) > 0
                       THEN Floor(Num(a) * Den(b), Den(a) * Num(b))
                       ELSE Floor(-(Num(a) * Den(b)), -(Den(a) * Num(b))))
    ELSE IF a.t = "str" /\ IsIn(a.s, "%") THEN Raises("OutOfModel")
    ELSE Raises("TypeError")

\* operator.pow, for an exponent that is a whole number
op_pow(a, b) ==
    IF IsNumber(a) /\ IsNumber(b)
    THEN IF Den(b) # 1 THEN Raises("OutOfModel")
         ELSE IF Num(b) >= 0
         THEN Returns(Number(a, b, IntPow(Num(a), Num(b)), IntPow(Den(a), Num(b))))
         ELSE IF Num(a) = 0 THEN Raises("ZeroDivisionError")
         ELSE Returns(Frac(IntPow(Den(a), -Num(b)), IntPow(Num(a), -Num(b))))
    ELSE Raises("TypeError")

\* operator.neg
op_neg(a) ==
    IF a.t = "int" THEN Returns(PyInt(-a.i))
    ELSE IF a.t = "float" THEN Returns(PyFloat(-a.n, a.d))
    ELSE Raises("TypeError")

\* Sheet._operators: the node types that have an operator
operators == {"Add", "Sub", "Mult", "Div", "USub", "Mod", "Pow"}

\* self._operators[type(op)](left, right)
apply_binary(op, left, right) ==
    IF op \notin operators THEN Raises("KeyError")
    ELSE IF op = "Add"  THEN op_add(left, right)
    ELSE IF op = "Sub"  THEN op_sub(left, right)
    ELSE IF op = "Mult" THEN op_mul(left, right)
    ELSE IF op = "Div"  THEN op_truediv(left, right)
    ELSE IF op = "Mod"  THEN op_mod(left, right)
    ELSE IF op = "Pow"  THEN op_pow(left, right)
    ELSE op_neg(left)

----------------------------------------------------------------------------
(* ast.parse(formula, mode='eval').body for the expressions written with
   names, decimal integers, the binary operators + - * / // % ** and the
   unary operators + and - (no blanks, no parentheses).  Nodes:
     [k |-> "Name", id |-> characters]
     [k |-> "Constant", value |-> int]
     [k |-> "BinOp", left |-> node, op |-> type, right |-> node]
     [k |-> "UnaryOp", op |-> type, operand |-> node]                      *)

IsLetter(ch) == IsIn(ascii_uppercase, ch) \/ IsIn(ascii_lowercase, ch)
IsDigit(ch) == IsIn(digits, ch)

Parsed(node, pos) == [ok |-> TRUE, node |-> node, pos |-> pos]
NoParse == [ok |-> FALSE, node |-> None, pos |-> 0]

\* the first position at or after p that holds no letter or digit
RECURSIVE WordEnd(_, _)
WordEnd(src, p) ==
    IF p <= Len(src) /\ (IsLetter(src[p]) \/ IsDigit(src[p]))
    THEN WordEnd(src, p + 1) ELSE p

At(src, p, ch) == p <= Len(src) /\ src[p] = ch

\* int(bits, 2)
RECURSIVE bin_of(_)
bin_of(bits) ==
    IF bits = <<>> THEN 0
    ELSE 2 * bin_of(SubSeq(bits, 1, Len(bits) - 1))
         + (IF bits[Len(bits)] = "1" THEN 1 ELSE 0)

\* a binary literal: 0b or 0B and then binary digits
IsBinary(word) ==
    /\ Len(word) >= 3
    /\ word[1] = "0"
    /\ word[2] \in {"b", "B"}
    /\ \A k \in 3..Len(word) : word[k] \in {"0", "1"}

\* NAME | NUMBER for the word at position p; a decimal number is a run of
\* digits that no letter follows and that has no leading zero unless it is
\* all zeros.  (The letters e, j, o and x, which make float, complex, octal
\* and hexadecimal literals, are not in the alphabet of the formulas
\* modelled.)
atom_of(word, p) ==
    IF word = <<>> THEN NoParse
    ELSE IF IsLetter(word[1])
    THEN Parsed([k |-> "Name", id |-> word], p + Len(word))
    ELSE IF IsBinary(word)
    THEN Parsed([k |-> "Constant",
                 value |-> PyInt(bin_of(SubSeq(word, 3, Len(word))))],
                p + Len(word))
    ELSE IF \E k \in 1..Len(word) : IsLetter(word[k]) THEN NoParse
    ELSE LET Decimal(n) ==
               IF word[1] = "0" /\ n # 0 THEN NoParse
               ELSE Parsed([k |-> "Constant", value |-> PyInt(n)], p + Len(word))
         IN  Decimal(int_of(word))

parse_atom(src, p) ==
    IF p > Len(src) THEN NoParse
    ELSE atom_of(SubSeq(src, p, WordEnd(src, p) - 1), p)

RECURSIVE parse_factor(_, _)
\* power: atom ['**' factor]
parse_power(src, p) ==
    LET Raised(a, f) ==
          IF ~f.ok THEN NoParse
          ELSE Parsed([k |-> "BinOp", left |-> a.node, op |-> "Pow",
                       right |-> f.node], f.pos)
        Power(a) ==
          IF ~a.ok THEN NoParse
          ELSE IF At(src, a.pos, "*") /\ At(src, a.pos + 1, "*")
          THEN Raised(a, parse_factor(src, a.pos + 2))
          ELSE a
    IN  Power(parse_atom(src, p))

\* factor: ('+' | '-') factor | power
parse_factor(src, p) ==
    LET Signed(f) ==
          IF ~f.ok THEN NoParse
          ELSE Parsed([k |-> "UnaryOp",
                       op |-> IF src[p] = "-" THEN "USub" ELSE "UAdd",
                       operand |-> f.node], f.pos)
    IN  IF At(src, p, "-") \/ At(src, p, "+")
        THEN Signed(parse_factor(src, p + 1))
        ELSE parse_power(src, p)

\* the operator of a term at position p, "none" when there is none
term_op(src, p) ==
    IF At(src, p, "/") /\ At(src, p + 1, "/") THEN "FloorDiv"
    ELSE IF At(src, p, "*") THEN "Mult"
    ELSE IF At(src, p, "/") THEN "Div"
    ELSE IF At(src, p, "%") THEN "Mod"
    ELSE "none"

\* term: term ('*' | '/' | '//' | '%') factor | factor
RECURSIVE term_rest(_, _, _)
term_rest(src, left, p) ==
    LET Rest(op, f) ==
          IF ~f.ok THEN NoParse
          ELSE term_rest(src, [k |-> "BinOp", left |-> left, op |-> op,
                               right |-> f.node], f.pos)
        With(op) ==
          IF op = "none" THEN Parsed(left, p)
          ELSE Rest(op, parse_factor(src, IF op = "FloorDiv" THEN p + 2 ELSE p + 1))
    IN  With(term_op(src, p))

parse_term(src, p) ==
    LET First(f) == IF ~f.ok THEN NoParse ELSE term_rest(src, f.node, f.pos)
    IN  First(parse_factor(src, p))

\* the operator of a sum at position p, "none" when there is none
sum_op(src, p) ==
    IF At(src, p, "+") THEN "Add"
    ELSE IF At(src, p, "-") THEN "Sub"
    ELSE "none"

\* sum: sum ('+' | '-') term | term
RECURSIVE sum_rest(_, _, _)
sum_rest(src, left, p) ==
    LET Rest(op, t) ==
          IF ~t.ok THEN NoParse
          ELSE sum_rest(src, [k |-> "BinOp", left |-> left, op |-> op,
                              right |-> t.node], t.pos)
        With(op) ==
          IF op = "none" THEN Parsed(left, p)
          ELSE Rest(op, parse_term(src, p + 1))
    IN  With(sum_op(src, p))

parse_sum(src, p) ==
    LET First(t) == IF ~t.ok THEN NoParse ELSE sum_rest(src, t.node, t.pos)
    IN  First(parse_term(src, p))

\* ast.parse(source, mode='eval').body, or SyntaxError
ast_parse(src) ==
    LET Whole(e) ==
          IF e.ok /\ e.pos = Len(src) + 1
          THEN [exc |-> "none", body |-> e.node]
          ELSE [exc |-> "SyntaxError", body |-> None]
    IN  Whole(parse_sum(src, 1))

----------------------------------------------------------------------------
(* reading and formula evaluation *)

\* The interpreter's resources, scaled down: the deepest call stack before
\* RecursionError (sys.getrecursionlimit() frames) and the longest str before
\* MemoryError.  As in the interpreter, a str that doubles once per level of
\* a reference chain outgrows memory before the call stack runs out.
RecursionLimit == 24
MaxStrLen == 12

ERROR == PyStr(<<"E", "R", "R", "O", "R">>)

\* a str result must fit in memory
Allocated(r) ==
    IF r.exc = "none" /\ r.val.t = "str" /\ Len(r.val.s) > MaxStrLen
    THEN Raises("MemoryError") ELSE r

\* isinstance(value, str) and value.startswith('=')
IsFormula(value) == value.t = "str" /\ value.s # <<>> /\ value.s[1] = "="

RECURSIVE get_value(_, _, _, _)
RECURSIVE eval(_, _, _)

\* Sheet.__evaluate_formula, entered as frame number depth
evaluate_formula(data, formula, depth) ==
    LET Caught(result) ==
          IF result.exc \in {"RecursionError", "TypeError"}
          THEN Returns(ERROR)
          ELSE result
        Evaluated(tree) ==
          IF tree.exc # "none" THEN Caught(Raises(tree.exc))
          ELSE Caught(eval(data, tree.body, depth + 1))
    IN  IF depth > RecursionLimit THEN Raises("RecursionError")
        ELSE IF depth + 1 > RecursionLimit THEN Returns(ERROR)
        ELSE Evaluated(ast_parse(Tail(formula)))

\* __eval that takes the raw content of a referenced cell for its value
eval_raw_names(data, node, depth) ==
    LET Applied(left, right) ==
          IF left.exc # "none" THEN left
          ELSE IF right.exc # "none" THEN right
          ELSE Allocated(apply_binary(node.op, left.val, right.val))
        Negated(operand) ==
          IF operand.exc # "none" THEN operand ELSE op_neg(operand.val)
        Raw(at) ==
          IF at.exc # "none" THEN Raises(at.exc)
          ELSE IF ~HasCell(data, at.row, at.col) THEN Raises("IndexError")
          ELSE Returns(Cell(data, at.row, at.col))
    IN  IF depth > RecursionLimit THEN Raises("RecursionError")
        ELSE IF node.k = "Name" THEN Raw(resolve_index(node.id))
        ELSE IF node.k = "Constant" /\ node.value.t \in {"int", "float"}
        THEN Returns(node.value)
        ELSE IF node.k = "BinOp"
        THEN Applied(eval(data, node.left, depth + 1),
                     eval(data, node.right, depth + 1))
        ELSE IF node.k = "UnaryOp"
        THEN IF node.op \notin operators THEN Raises("KeyError")
             ELSE Negated(eval(data, node.operand, depth + 1))
        ELSE Raises("TypeError")

\* Sheet.__eval, entered as frame number depth
eval(data, node, depth) ==
    LET Applied(left, right) ==
          IF left.exc # "none" THEN left
          ELSE IF right.exc # "none" THEN right
          ELSE Allocated(apply_binary(node.op, left.val, right.val))
        Negated(operand) ==
          IF operand.exc # "none" THEN operand ELSE op_neg(operand.val)
    IN  IF depth > RecursionLimit THEN Raises("RecursionError")
        ELSE IF node.k = "Name"
        THEN get_value(data, node.id, TRUE, depth + 1)
        ELSE IF node.k = "Constant" /\ node.value.t \in {"int", "float"}
        THEN Returns(node.value)
        ELSE IF node.k = "BinOp"
        THEN Applied(eval(data, node.left, depth + 1),
                     eval(data, node.right, depth + 1))
        ELSE IF node.k = "UnaryOp"
        THEN IF node.op \notin operators THEN Raises("KeyError")
             ELSE Negated(eval(data, node.operand, depth + 1))
        ELSE Raises("TypeError")

\* Sheet.get_value, entered as frame number depth; val is what it returns
get_value(data, str_index, raw, depth) ==
    LET Read(value) ==
          LET Result(result) ==
                IF result.exc # "none" THEN result
                ELSE IF ~raw
                THEN Returns([value |-> value, result |-> result.val])
                ELSE result
          IN  IF IsFormula(value)
              THEN Result(evaluate_formula(data, value.s, depth + 1))
              ELSE Result(Returns(value))
        Resolved(at) ==
          IF at.exc # "none" THEN Raises(at.exc)
          ELSE IF ~HasCell(data, at.row, at.col) THEN Raises("IndexError")
          ELSE Read(Cell(data, at.row, at.col))
    IN  IF depth + 1 > RecursionLimit THEN Raises("RecursionError")
        ELSE Resolved(resolve_index(str_index))

----------------------------------------------------------------------------
(* the calls a client makes *)

\* the addresses the client uses: the first NumAddresses of AddressOrder
\* (valid ones), and one whose row number 0 resolves to row -1
NumAddresses == 3
AddressOrder ==
    << <<"A", "2">>, <<"C", "1">>, <<"B", "2">>, <<"A", "1">>,
       <<"B", "1">>, <<"C", "2">> >>
ValidAddresses == {AddressOrder[k] : k \in 1..NumAddresses}
InvalidAddresses == {<<"A", "0">>}
Addresses == ValidAddresses \cup InvalidAddresses

\* the contents the client writes: a scalar and a formula
Values ==
    { PyInt(1),
      PyStr(<<"=", "B", "2", "+", "1">>) }

\* the instances of Sheet a client constructs
Instances == {1, 2}

Call(op, str_index, value, raw, exc, ret) ==
    [op |-> op, index |-> str_index, value |-> value, raw |-> raw,
     exc |-> exc, ret |-> ret]

\* Sheet(): the class attribute _data_array = [] and no call made yet
Init ==
    /\ data_array = <<>>
    /\ last = Call("Sheet", <<>>, None, FALSE, "none", None)
    /\ set_cells = {}
    /\ sheets = [class_array |-> <<>>,
                 own |-> [i \in Instances |-> [bound |-> FALSE, array |-> <<>>]]]

\* the coordinates an address resolves to
Coords(str_index) ==
    LET Pair(at) == <<at.row, at.col>> IN Pair(resolve_index(str_index))

\* a call of set_value and its outcome
SetCall(str_index, value) ==
    LET Done(done) ==
          /\ data_array' = done.data
          /\ last' = Call("set_value", str_index, value, FALSE, done.exc, None)
    IN  Done(set_value(data_array, str_index, value))

SetValue(str_index, value) ==
    /\ SetCall(str_index, value)
    /\ UNCHANGED <<set_cells, sheets>>

\* set_value, with the record of the coordinates it has populated
SetValueRecorded(str_index, value) ==
    /\ SetCall(str_index, value)
    /\ set_cells' = IF last'.exc = "none"
                    THEN set_cells \cup {Coords(str_index)}
                    ELSE set_cells
    /\ UNCHANGED sheets

GetValue(str_index, raw) ==
    /\ LET Done(done) ==
             last' = Call("get_value", str_index, None, raw, done.exc, done.val)
       IN  Done(get_value(data_array, str_index, raw, 1))
    /\ UNCHANGED <<data_array, set_cells, sheets>>

EditValue(str_index, value) ==
    /\ LET Done(done) ==
             /\ data_array' = done.data
             /\ last' = Call("edit_value", str_index, value, FALSE, done.exc, None)
       IN  Done(edit_value(data_array, str_index, value))
    /\ UNCHANGED <<set_cells, sheets>>

DeleteValue(str_index) ==
    /\ LET Done(done) ==
             /\ data_array' = done.data
             /\ last' = Call("delete_value", str_index, None, FALSE, done.exc, None)
       IN  Done(delete_value(data_array, str_index))
    /\ UNCHANGED <<set_cells, sheets>>

\* a client that also uses the address with row number 0
Next ==
    \E str_index \in Addresses :
        \/ \E value \in Values : SetValue(str_index, value)
        \/ \E raw \in BOOLEAN : GetValue(str_index, raw)
        \/ \E value \in Values : EditValue(str_index, value)
        \/ DeleteValue(str_index)

Spec == Init /\ [][Next]_vars

\* the same client with valid addresses only, and the record of the
\* coordinates that a set_value has populated
NextHistory ==
    \E str_index \in ValidAddresses :
        \/ \E value \in Values : SetValueRecorded(str_index, value)
        \/ \E raw \in BOOLEAN : GetValue(str_index, raw)
        \/ \E value \in Values : EditValue(str_index, value)
        \/ DeleteValue(str_index)

SpecHistory == Init /\ [][NextHistory]_vars

\* a client that fills a few cells with scalars and formulas that refer to
\* each other, and reads them
NumEvalAddresses == 3
EvalAddressOrder ==
    << <<"A", "1">>, <<"A", "2">>, <<"A", "3">>, <<"A", "4">> >>
EvalAddresses == {EvalAddressOrder[k] : k \in 1..NumEvalAddresses}
EvalValues ==
    { PyInt(1),
      PyStr(<<"=", "A", "1">>),
      PyStr(<<"=", "A", "1", "+", "1">>),
      PyStr(<<"=", "A", "2", "*", "2">>),
      PyStr(<<"=", "1", "/", "0">>) }

NextEval ==
    \E str_index \in EvalAddresses :
        \/ \E value \in EvalValues : SetValue(str_index, value)
        \/ \E raw \in BOOLEAN : GetValue(str_index, raw)
        \/ \E value \in EvalValues : EditValue(str_index, value)
        \/ DeleteValue(str_index)

SpecEval == Init /\ [][NextEval]_vars

\* the client of the demo script: scalars in B1 and B2, in B3 a formula over
\* them and in B4 a formula over B3, written in any order, edited, deleted
\* and read
MaxScalar == 2
ArithAddresses ==
    { <<"B", "1">>, <<"B", "2">>, <<"B", "3">>, <<"B", "4">> }
ArithContents(str_index) ==
    IF str_index \in { <<"B", "1">>, <<"B", "2">> }
    THEN { PyInt(n) : n \in 1..MaxScalar }
    ELSE IF str_index = <<"B", "3">>
    THEN { PyStr(<<"=", "B", "1", "+", "B", "2">>),
           PyStr(<<"=", "-", "B", "1", "*", "B", "2">>) }
    ELSE { PyStr(<<"=", "B", "3", "-", "1", "0">>),
           PyStr(<<"=", "B", "3", "*", "*", "2", "%", "7">>) }

NextArith ==
    \E str_index \in ArithAddresses :
        \/ \E value \in ArithContents(str_index) : SetValue(str_index, value)
        \/ \E raw \in BOOLEAN : GetValue(str_index, raw)
        \/ \E value \in ArithContents(str_index) : EditValue(str_index, value)
        \/ DeleteValue(str_index)

SpecArith == Init /\ [][NextArith]_vars

\* a client that also passes malformed addresses: a column part that is not
\* one letter, or no row part
MalformedAddresses ==
    { <<"A", "A", "1">>, <<"1", "A">>, <<"1">>, <<"B">> }

NextAddress ==
    \E str_index \in ValidAddresses \cup MalformedAddresses :
        \/ \E value \in Values : SetValue(str_index, value)
        \/ \E raw \in BOOLEAN : GetValue(str_index, raw)
        \/ \E value \in Values : EditValue(str_index, value)
        \/ DeleteValue(str_index)

SpecAddress == Init /\ [][NextAddress]_vars

\* the addresses L<n>: str(n) after the letter
RECURSIVE str_of(_)
str_of(n) ==
    IF n < 10 THEN <<digits[n + 1]>>
    ELSE str_of(n \div 10) \o <<digits[(n % 10) + 1]>>

MaxRowNumber == 12
Letters == {ascii_uppercase[k] : k \in 1..26} \cup {ascii_lowercase[k] : k \in 1..26}
RowNumbers == 1..MaxRowNumber
AddressOf(letter, number) == <<letter>> \o str_of(number)

\* a call of __resolve_index on the address of a letter and a row number
ResolveIndex(letter, number) ==
    /\ LET Done(at) ==
             last' = Call("resolve_index", AddressOf(letter, number),
                          [letter |-> letter, number |-> number], FALSE,
                          at.exc, <<at.row, at.col>>)
       IN  Done(resolve_index(AddressOf(letter, number)))
    /\ UNCHANGED <<data_array, set_cells, sheets>>

NextResolve ==
    \E letter \in Letters, number \in RowNumbers : ResolveIndex(letter, number)

SpecResolve == Init /\ [][NextResolve]_vars

\* a client that fills a third row as well
FaultAddresses == ValidAddresses \cup { <<"A", "3">> }

NextFault ==
    \E str_index \in FaultAddresses :
        \/ \E value \in Values : SetValue(str_index, value)
        \/ \E raw \in BOOLEAN : GetValue(str_index, raw)
        \/ \E value \in Values : EditValue(str_index, value)
        \/ DeleteValue(str_index)

SpecFault == Init /\ [][NextFault]_vars

\* a call self.set_value(*args): the arguments after self are bound to the
\* parameters str_index and value, and any other number of them is a
\* TypeError raised before the body runs
call_set_value(data, args) ==
    IF Len(args) # 2 THEN [exc |-> "TypeError", data |-> data]
    ELSE set_value(data, args[1], args[2])

\* Sheet.__setitem__: self.set_value(self, key, value)
setitem(data, key, value) ==
    call_set_value(data, <<"self", key, value>>)

\* sheet[key] = value
SetItem(key, value) ==
    /\ LET Done(done) ==
             /\ data_array' = done.data
             /\ last' = Call("__setitem__", key, value, FALSE, done.exc, None)
       IN  Done(setitem(data_array, key, value))
    /\ UNCHANGED <<set_cells, sheets>>

\* a client that writes with set_value and with the indexing syntax
NextItem ==
    \E str_index \in ValidAddresses :
        \/ \E value \in Values : SetValue(str_index, value)
        \/ \E value \in Values : SetItem(str_index, value)
        \/ \E raw \in BOOLEAN : GetValue(str_index, raw)
        \/ \E value \in Values : EditValue(str_index, value)
        \/ DeleteValue(str_index)

SpecItem == Init /\ [][NextItem]_vars

----------------------------------------------------------------------------
(* two instances of the class: _data_array = [] is a class attribute, which
   an instance reads until an assignment self._data_array = ... (in resize)
   gives the instance an attribute of its own.  A slice copies the list of
   rows and not the rows: the rows of the class list would be shared with
   the list an instance gets from resize.  The class list has no rows in any
   reachable state (C16_InstancesIsolated), so that no row is ever shared. *)

\* self._data_array as instance i reads it
array_of(heap, i) ==
    IF heap.own[i].bound THEN heap.own[i].array ELSE heap.class_array

\* set_value that never assigns self._data_array: the grid grows in place
never_rebinds(data, str_index) == FALSE

\* set_value on data reaches self.resize, which assigns self._data_array
rebinds(data, str_index) ==
    LET Resolved(at) == at.exc = "none" /\ ~HasCell(data, at.row, at.col)
    IN  Resolved(resolve_index(str_index))

\* the heap after instance i has made its list hold data: by assignment to
\* its attribute, or in place in the list it reads
written(heap, i, data, assigned) ==
    IF assigned
    THEN [heap EXCEPT !.own[i] = [bound |-> TRUE, array |-> data]]
    ELSE IF heap.own[i].bound
    THEN [heap EXCEPT !.own[i].array = data]
    ELSE [heap EXCEPT !.class_array = data]

SheetCall(i, op, str_index, value, raw, exc, ret) ==
    [sheet |-> i, op |-> op, index |-> str_index, value |-> value, raw |-> raw,
     exc |-> exc, ret |-> ret]

InstanceAddresses == { <<"A", "1">>, <<"B", "2">> }
InstanceValues == { PyInt(n) : n \in 1..MaxScalar }

SheetSetValue(i, str_index, value) ==
    /\ LET Done(done) ==
             /\ sheets' = written(sheets, i, done.data,
                                  rebinds(array_of(sheets, i), str_index))
             /\ last' = SheetCall(i, "set_value", str_index, value, FALSE,
                                  done.exc, None)
       IN  Done(set_value(array_of(sheets, i), str_index, value))
    /\ UNCHANGED <<data_array, set_cells>>

SheetGetValue(i, str_index, raw) ==
    /\ LET Done(done) ==
             last' = SheetCall(i, "get_value", str_index, None, raw,
                               done.exc, done.val)
       IN  Done(get_value(array_of(sheets, i), str_index, raw, 1))
    /\ UNCHANGED <<data_array, set_cells, sheets>>

SheetEditValue(i, str_index, value) ==
    /\ LET Done(done) ==
             /\ sheets' = written(sheets, i, done.data, FALSE)
             /\ last' = SheetCall(i, "edit_value", str_index, value, FALSE,
                                  done.exc, None)
       IN  Done(edit_value(array_of(sheets, i), str_index, value))
    /\ UNCHANGED <<data_array, set_cells>>

SheetDeleteValue(i, str_index) ==
    /\ LET Done(done) ==
             /\ sheets' = written(sheets, i, done.data, FALSE)
             /\ last' = SheetCall(i, "delete_value", str_index, None, FALSE,
                                  done.exc, None)
       IN  Done(delete_value(array_of(sheets, i), str_index))
    /\ UNCHANGED <<data_array, set_cells>>

NextInstances ==
    \E i \in Instances, str_index \in InstanceAddresses :
        \/ \E value \in InstanceValues : SheetSetValue(i, str_index, value)
        \/ \E raw \in BOOLEAN : SheetGetValue(i, str_index, raw)
        \/ \E value \in InstanceValues : SheetEditValue(i, str_index, value)
        \/ SheetDeleteValue(i, str_index)

SpecInstances == Init /\ [][NextInstances]_vars

----------------------------------------------------------------------------
(* notions the properties are stated with *)

\* a valid address: column A-Z and row number >= 1
IsValid(str_index) ==
    LET Ok(at) == at.exc = "none" /\ at.row >= 0
    IN  Ok(resolve_index(str_index))

\* the content of the slot at (row, col), row >= 0: a slot outside the grid
\* is empty
Content(data, row, col) ==
    IF HasCell(data, row, col) THEN Cell(data, row, col) ELSE default_value
ContentAt(data, str_index) ==
    LET Of(at) == Content(data, at[1], at[2]) IN Of(Coords(str_index))

RowCount(data) == Len(data)
ColumnCount(data) == IF data = <<>> THEN 0 ELSE Len(data[1])

\* the slots a grid holds
SlotsOf(data) ==
    UNION {{<<r, c>> : c \in 0..(Len(data[r + 1]) - 1)} : r \in 0..(Len(data) - 1)}

\* the slot of the grid that a resolvable address designates
Target(data, str_index) ==
    LET Slot(at) == <<IF at.row < 0 THEN Len(data) + at.row ELSE at.row, at.col>>
    IN  Slot(resolve_index(str_index))

\* the step is the operation op on the slot
StepOn(op, slot) ==
    /\ last'.op = op
    /\ resolve_index(last'.index).exc = "none"
    /\ Target(data_array', last'.index) = slot

\* the names an expression refers to
RECURSIVE Names(_)
Names(node) ==
    IF node.k = "Name" THEN {node.id}
    ELSE IF node.k = "BinOp" THEN Names(node.left) \cup Names(node.right)
    ELSE IF node.k = "UnaryOp" THEN Names(node.operand)
    ELSE {}

\* the cell at address b holds a formula with a reference to the cell at a
RefersTo(data, b, a) ==
    LET Refers(tree) ==
          /\ tree.exc = "none"
          /\ \E id \in Names(tree.body) : IsValid(id) /\ Coords(id) = Coords(a)
        Holds(content) ==
          IsFormula(content) /\ Refers(ast_parse(Tail(content.s)))
    IN  Holds(ContentAt(data, b))

\* the cell at b depends on the cell at a, through at most fuel references
RECURSIVE DependsOn(_, _, _, _)
DependsOn(data, b, a, fuel) ==
    /\ fuel > 0
    /\ \/ RefersTo(data, b, a)
       \/ \E c \in EvalAddresses :
            RefersTo(data, b, c) /\ DependsOn(data, c, a, fuel - 1)

----------------------------------------------------------------------------
(* properties *)

\* C1: set_value(a, v) on a valid address a whose cell is empty, inside or
\* outside the bounds of the grid, returns without fault and the cell at a
\* then holds v.
C1_SetOnEmptyCellSucceeds ==
    [][ (/\ last'.op = "set_value"
         /\ IsValid(last'.index)
         /\ ContentAt(data_array, last'.index) = default_value)
        => (/\ last'.exc = "none"
            /\ ContentAt(data_array', last'.index) = last'.value) ]_vars

\* C2: the grid is rectangular in every reachable state: every row is as
\* long as every other row.
C2_Rectangular ==
    \A r1, r2 \in 1..Len(data_array) : Len(data_array[r1]) = Len(data_array[r2])

\* C3: the grid never shrinks: no step reduces the row count or the column
\* count.
C3_NeverShrinks ==
    [][ /\ RowCount(data_array') >= RowCount(data_array)
        /\ ColumnCount(data_array') >= ColumnCount(data_array) ]_vars

\* C4: right after a successful set_value(a, v), get_value(a) returns with
\* value = v, and for a scalar v get_value(a, raw=True) returns v.
C4_ReadBackAfterSet ==
    (last.op = "set_value" /\ last.exc = "none")
    => LET Read(got, raw) ==
             /\ got.exc = "none"
             /\ got.val.value = last.value
             /\ ~IsFormula(last.value) => raw = Returns(last.value)
       IN  Read(get_value(data_array, last.index, FALSE, 1),
                get_value(data_array, last.index, TRUE, 1))

\* C5: set_value(a, v) on a cell whose content differs from the default
\* value raises CustomValueAlreadySetError and the cell keeps its content.
C5_SetOnPopulatedCellFaults ==
    [][ LET On(at) ==
              (/\ last'.op = "set_value"
               /\ at.exc = "none"
               /\ HasCell(data_array, at.row, at.col)
               /\ Cell(data_array, at.row, at.col) # default_value)
              => (/\ last'.exc = "CustomValueAlreadySetError"
                  /\ HasCell(data_array', at.row, at.col)
                  /\ Cell(data_array', at.row, at.col)
                       = Cell(data_array, at.row, at.col))
        IN  On(resolve_index(last'.index)) ]_vars

\* C5, its case: a set_value on a populated cell has raised
\* CustomValueAlreadySetError
C5_Witness ==
    /\ last.op = "set_value"
    /\ last.exc = "CustomValueAlreadySetError"
    /\ IsValid(last.index)
    /\ ContentAt(data_array, last.index) # default_value
    /\ ContentAt(data_array, last.index) # last.value

\* C6: edit_value and delete_value on a valid address that no set_value has
\* ever populated raise CustomEmptyCellError, also when the address lies
\* inside the bounds of the grid.
C6_EditDeleteNeverSetFaults ==
    [][ (/\ last'.op \in {"edit_value", "delete_value"}
         /\ IsValid(last'.index)
         /\ Coords(last'.index) \notin set_cells)
        => last'.exc = "CustomEmptyCellError" ]_vars

\* C7: a slot goes from empty to populated only in a set_value on it, from
\* one populated content to another only in an edit_value on it, and from
\* populated to empty only in a delete_value on it.
C7_SlotLifecycle ==
    [][ \A slot \in SlotsOf(data_array) \cup SlotsOf(data_array') :
          LET Change(before, after) ==
                /\ (before = default_value /\ after # default_value)
                      => StepOn("set_value", slot)
                /\ (before # default_value /\ after # default_value
                                           /\ after # before)
                      => StepOn("edit_value", slot)
                /\ (before # default_value /\ after = default_value)
                      => StepOn("delete_value", slot)
          IN  Change(Content(data_array, slot[1], slot[2]),
                     Content(data_array', slot[1], slot[2])) ]_vars

\* C8: get_value on a valid address outside the bounds of the grid returns
\* the default value as value and as result, without fault.
C8_ReadOutsideBoundsIsEmpty ==
    (/\ last.op = "get_value"
     /\ IsValid(last.index)
     /\ ContentAt(data_array, last.index) = default_value
     /\ Coords(last.index) \notin SlotsOf(data_array))
    => /\ last.exc = "none"
       /\ last.ret = IF last.raw THEN default_value
                     ELSE [value |-> default_value, result |-> default_value]

\* C9: get_value on a cell that holds formula text returns without fault,
\* whatever the formula.
C9_FormulaReadNeverFaults ==
    (/\ last.op = "get_value"
     /\ IsValid(last.index)
     /\ IsFormula(ContentAt(data_array, last.index)))
    => last.exc = "none"

\* C10: after delete_value(a) on a populated cell a, get_value on every
\* formula cell that depends on a, directly or through other formula cells,
\* returns the result ERROR.
C10_DeleteMakesDependentsError ==
    [][ (/\ last'.op = "delete_value"
         /\ last'.exc = "none"
         /\ IsValid(last'.index)
         /\ ContentAt(data_array, last'.index) # default_value)
        => \A b \in EvalAddresses :
             DependsOn(data_array', b, last'.index, NumEvalAddresses)
             => get_value(data_array', b, FALSE, 1)
                  = Returns([value |-> ContentAt(data_array', b),
                             result |-> ERROR]) ]_vars

\* the result a returned get_value call reports
ResultOf(call) == IF call.raw THEN call.ret ELSE call.ret.result

\* C11: get_value on a cell that lies on a reference cycle (a formula that
\* refers to itself, directly or through other formula cells) returns
\* without fault and with the result ERROR.
C11_CycleReadsError ==
    (/\ last.op = "get_value"
     /\ IsValid(last.index)
     /\ DependsOn(data_array, last.index, last.index, NumEvalAddresses))
    => /\ last.exc = "none"
       /\ ResultOf(last) = ERROR

----------------------------------------------------------------------------
(* the reference arithmetic: integer formulas by substitution *)

Undefined == [ok |-> FALSE, n |-> 0]
Defined(n) == [ok |-> TRUE, n |-> n]

\* the integer an expression denotes when every reference in it, followed
\* through at most fuel formula cells, ends in a populated integer cell
RECURSIVE RefExpr(_, _, _)
RefExpr(data, node, fuel) ==
    LET Tree(tree) ==
          IF tree.exc = "none" THEN RefExpr(data, tree.body, fuel - 1)
          ELSE Undefined
        Of(content) ==
          IF content.t = "int" THEN Defined(content.i)
          ELSE IF IsFormula(content) THEN Tree(ast_parse(Tail(content.s)))
          ELSE Undefined
        Both(l, r) ==
          IF ~l.ok \/ ~r.ok THEN Undefined
          ELSE IF node.op = "Add" THEN Defined(l.n + r.n)
          ELSE IF node.op = "Sub" THEN Defined(l.n - r.n)
          ELSE IF node.op = "Mult" THEN Defined(l.n * r.n)
          ELSE IF node.op = "Mod" /\ r.n > 0 THEN Defined(l.n % r.n)
          ELSE IF node.op = "Mod" /\ r.n < 0 THEN Defined(-((-l.n) % (-r.n)))
          ELSE IF node.op = "Pow" /\ r.n >= 0 THEN Defined(l.n ^ r.n)
          ELSE Undefined
        Minus(x) == IF x.ok THEN Defined(-x.n) ELSE Undefined
    IN  IF node.k = "Name"
        THEN IF fuel = 0 \/ ~IsValid(node.id) THEN Undefined
             ELSE Of(ContentAt(data, node.id))
        ELSE IF node.k = "Constant"
        THEN IF node.value.t = "int" THEN Defined(node.value.i) ELSE Undefined
        ELSE IF node.k = "BinOp"
        THEN Both(RefExpr(data, node.left, fuel), RefExpr(data, node.right, fuel))
        ELSE IF node.k = "UnaryOp" /\ node.op = "USub"
        THEN Minus(RefExpr(data, node.operand, fuel))
        ELSE Undefined

\* the integer the cell at an address denotes in an acyclic grid
Reference(data, str_index) ==
    RefExpr(data, [k |-> "Name", id |-> str_index], Cardinality(ArithAddresses) + 1)

\* the coordinates that the formula in the cell at b refers to
RefCoords(data, b) ==
    LET Refs(tree) ==
          IF tree.exc # "none" THEN {}
          ELSE {Coords(id) : id \in {n \in Names(tree.body) : IsValid(n)}}
        Of(content) ==
          IF IsFormula(content) THEN Refs(ast_parse(Tail(content.s))) ELSE {}
    IN  Of(ContentAt(data, b))

\* the cell at b depends on the cell at a through formula cells among cells
RECURSIVE DependsOnAmong(_, _, _, _, _)
DependsOnAmong(cells, data, b, a, fuel) ==
    LET Via(refs) ==
          \/ Coords(a) \in refs
          \/ \E c \in cells :
               Coords(c) \in refs /\ DependsOnAmong(cells, data, c, a, fuel - 1)
    IN  fuel > 0 /\ Via(RefCoords(data, b))

\* the grid in which the cell at an address holds value
WithContent(data, str_index, value) ==
    LET Put(at) == StoreCell(data, at[1], at[2], value)
    IN  Put(Coords(str_index))

\* C12: after an edit_value that has put a scalar in a cell, get_value on
\* every formula cell that depends on it, directly or through other
\* formulas, returns the result that the formulas have with that scalar in
\* the cell, without those formulas being set again.
C12_NoStaleResults ==
    (/\ last.op = "edit_value"
     /\ last.exc = "none"
     /\ last.value.t = "int")
    => \A b \in ArithAddresses :
         LET Fresh(expected) ==
               expected.ok
               => get_value(data_array, b, FALSE, 1)
                    = Returns([value |-> ContentAt(data_array, b),
                               result |-> PyInt(expected.n)])
         IN  DependsOnAmong(ArithAddresses, data_array, b, last.index,
                            Cardinality(ArithAddresses))
             => Fresh(Reference(
                    WithContent(data_array, last.index, last.value), b))

\* C12, its case: a scalar has just been edited while a formula that depends
\* on it through another formula has a numeric result
C12_Witness ==
    /\ last.op = "edit_value"
    /\ last.exc = "none"
    /\ last.index = <<"B", "2">>
    /\ last.value = PyInt(2)
    /\ ContentAt(data_array, <<"B", "4">>) = PyStr(<<"=", "B", "3", "-", "1", "0">>)
    /\ Reference(data_array, <<"B", "4">>) = Defined(-7)
    /\ get_value(data_array, <<"B", "4">>, TRUE, 1) = Returns(PyInt(-7))

\* C13: in an acyclic grid of integer scalars and formulas over + - * % **
\* and unary negation whose references all end in populated numeric cells,
\* get_value returns as result the value of the reference arithmetic, in
\* which every reference stands for the evaluated result of its cell.
C13_ResultsEqualReference ==
    (last.op = "get_value" /\ IsValid(last.index))
    => LET Agrees(expected) ==
             expected.ok
             => (last.exc = "none" /\ ResultOf(last) = PyInt(expected.n))
       IN  Agrees(Reference(data_array, last.index))

\* C13, its case: B4 = '=B3-10' over B3 = '=B1+B2' has been read as -7
C13_Witness ==
    /\ last.op = "get_value"
    /\ last.exc = "none"
    /\ last.index = <<"B", "4">>
    /\ ~last.raw
    /\ last.ret.value = PyStr(<<"=", "B", "3", "-", "1", "0">>)
    /\ last.ret.result = PyInt(-7)
    /\ ContentAt(data_array, <<"B", "3">>) = PyStr(<<"=", "B", "1", "+", "B", "2">>)

\* an address made of one letter, of either case, and a row part of digits
WellFormed(str_index) ==
    /\ Len(str_index) >= 2
    /\ IsIn(ascii_uppercase \o ascii_lowercase, str_index[1])
    /\ \A k \in 2..Len(str_index) : IsIn(digits, str_index[k])

\* C14: every operation called with an address whose column part is not one
\* letter, or that has no row part, faults with CustomSheetIndexError and
\* with no other fault.
C14_MalformedAddressFaults ==
    (last.op # "Sheet" /\ ~WellFormed(last.index))
    => last.exc = "CustomSheetIndexError"

\* the position of a letter, of either case, in the alphabet, from 0
PositionOf(letter) ==
    (CHOOSE k \in 1..26 : letter \in {ascii_uppercase[k], ascii_lowercase[k]}) - 1

\* the address a coordinate is rendered as
Render(coord) == AddressOf(ascii_uppercase[coord[2] + 1], coord[1] + 1)

\* C15: the address L<n>, L a letter of either case and n >= 1, resolves to
\* row n - 1 and the column that is the position of L in the alphabet;
\* rendering the coordinate gives the address back (in upper case), and no
\* address of another letter or another number resolves to the same
\* coordinate.
C15_ResolutionIsBijective ==
    (last.op = "resolve_index")
    => /\ last.exc = "none"
       /\ last.ret = <<last.value.number - 1, PositionOf(last.value.letter)>>
       /\ last.ret[2] \in 0..25
       /\ \A letter \in Letters, number \in RowNumbers :
            LET Same(at) ==
                  (at.exc = "none" /\ <<at.row, at.col>> = last.ret)
                  => (/\ PositionOf(letter) = PositionOf(last.value.letter)
                      /\ number = last.value.number
                      /\ Render(last.ret) = upper(AddressOf(letter, number)))
            IN  Same(resolve_index(AddressOf(letter, number)))

\* C15, its case: a lower-case address with a two-digit row number has
\* been resolved
C15_Witness ==
    /\ last.op = "resolve_index"
    /\ last.index = <<"z", "1", "2">>
    /\ last.ret = <<11, 25>>

\* C16: no call on one instance changes the grid that the other instance
\* reads, contents and dimensions, and with it any response of get_value on
\* the other instance; the list of the class is never written.
C16_InstancesIsolated ==
    [][ /\ sheets'.class_array = <<>>
        /\ \A i \in Instances :
             i # last'.sheet => array_of(sheets', i) = array_of(sheets, i) ]_vars

\* C16, its case: both instances have been written, the second one last,
\* and hold different grids
C16_Witness ==
    /\ last.op = "edit_value"
    /\ last.exc = "none"
    /\ last.sheet = 2
    /\ sheets.own[1].bound
    /\ sheets.own[2].bound
    /\ ContentAt(array_of(sheets, 1), <<"B", "2">>) = PyInt(1)
    /\ ContentAt(array_of(sheets, 2), <<"B", "2">>) = PyInt(2)
    /\ ColumnCount(array_of(sheets, 1)) # ColumnCount(array_of(sheets, 2))

\* C17: sheet[key] = value has the effect and the outcome of
\* set_value(key, value) in the state it is executed in: the same grid
\* afterwards and the same fault or none.
C17_SetItemIsSetValue ==
    [][ last'.op = "__setitem__"
        => LET Same(done) ==
                 /\ data_array' = done.data
                 /\ last'.exc = done.exc
           IN  Same(set_value(data_array, last'.index, last'.value)) ]_vars

\* C18: a successful set_value, edit_value or delete_value on a valid
\* address leaves the content of every other cell as it was; a set_value
\* that grows the grid loses no content.
C18_WritesAreLocal ==
    [][ (/\ last'.op \in {"set_value", "edit_value", "delete_value"}
         /\ last'.exc = "none"
         /\ IsValid(last'.index))
        => \A slot \in SlotsOf(data_array) \cup SlotsOf(data_array') :
             slot # Coords(last'.index)
             => Content(data_array', slot[1], slot[2])
                  = Content(data_array, slot[1], slot[2]) ]_vars

\* C19: a call that ends with a fault, of any kind, leaves the grid, its
\* dimensions and the content of every cell, as it was before the call.
C19_FaultsAreAtomic ==
    [][ last'.exc # "none" => data_array' = data_array ]_vars

\* an address with the row number 0: it resolves to the row index -1
RowNumberZero(str_index) ==
    LET Zero(at) == at.exc = "none" /\ at.row = -1
    IN  Zero(resolve_index(str_index))

\* C20: a call with an address whose row number is 0 changes the content of
\* no cell that a row number >= 1 addresses, and when it is a get_value
\* that returns, it returns the content of no such cell.
C20_RowZeroTouchesNoCell ==
    [][ (last'.op # "Sheet" /\ RowNumberZero(last'.index))
        => /\ \A slot \in SlotsOf(data_array) \cup SlotsOf(data_array') :
                Content(data_array', slot[1], slot[2])
                  = Content(data_array, slot[1], slot[2])
           /\ (last'.op = "get_value" /\ last'.exc = "none")
                => last'.ret = IF last'.raw THEN default_value
                               ELSE [value |-> default_value,
                                     result |-> default_value] ]_vars

====
